---------------------------- MODULE Spec2Model ----------------------------
(***************************************************************************)
(* Point sampling of a segment (lib/segment/src/segment/sampling.rs) and   *)
(* the REST query validation layer (lib/api/src/rest/validate.rs).         *)
(*                                                                         *)
(* Sampling: a Segment holds an Id Tracker (internal id -> external id of  *)
(* the live points) and a Payload Index.  Three read operations walk lazy  *)
(* iterators over them; every call of next() on an iterator is one step of *)
(* the model, and the atomic load of the cancellation flag is a step of    *)
(* its own, so that a concurrent setter can act between the load and the   *)
(* element that follows it.                                                *)
(***************************************************************************)
EXTENDS Naturals, Sequences, FiniteSets

VARIABLES
    id_tracker,     \* Segment.id_tracker: internal id -> external id, live points only
    payload_index,  \* Segment.payload_index: internal id -> payload value
    op,             \* per request: which sampling operation it calls
    limit,          \* per request: argument `limit`
    condition,      \* per request: argument `condition` (the payload values the Filter accepts)
    is_stopped,     \* per request: the AtomicBool behind `is_stopped`
    pc,             \* per request: position of the call
    iter,           \* per request: the underlying lazy sequence, fixed when the call starts
    pos,            \* per request: how many elements of iter have been produced
    done,           \* per request: CheckStop.done
    out,            \* per request: the Vec being collected (reservoir, then result)
    seen,           \* per request: enumerate() index of choose_multiple's second loop
    polls,          \* per request: number of loads of is_stopped            (history)
    pulls,          \* per request: number of elements drawn from iter        (history)
    checks,         \* per request: number of filter_context.check calls      (history)
    stop_mark,      \* per request: pulls at the moment the flag was set      (history)
    stop_pending,   \* per request: the flag was set between a load and its element (history)
    input,          \* validation: the value validate() is called on
    vpc,            \* validation: position of the validate() call
    idx,            \* validation: index of the next nested item of the loop
    result          \* validation: what validate() returned

segment == <<id_tracker, payload_index>>
sampling == <<id_tracker, payload_index, op, limit, condition, is_stopped, pc, iter,
              pos, done, out, seen, polls, pulls, checks, stop_mark, stop_pending>>
validation == <<input, vpc, idx, result>>
vars == <<sampling, validation>>

---------------------------------------------------------------------------
(* Bounds *)

MaxPoints == 4
MaxLimit == 3
ConcPoints == 2
ConcLimit == 2

Requests == {"r1", "r2"}
PayloadValues == {"a", "b"}
Ops == {"index_shuffled", "random_stream", "random_id"}
None == 0

---------------------------------------------------------------------------
(* Generic helpers *)

Min(a, b) == IF a <= b THEN a ELSE b

Range(s) == {s[i] : i \in 1 .. Len(s)}

Distinct(s) == \A i, j \in 1 .. Len(s) : i # j => s[i] # s[j]

Perms(S) == {f \in [1 .. Cardinality(S) -> S] : \A i, j \in 1 .. Cardinality(S) : i # j => f[i] # f[j]}

IsPermutationOf(s, t) ==
    /\ Len(s) = Len(t)
    /\ \E p \in Perms(1 .. Len(t)) : \A i \in 1 .. Len(t) : s[i] = t[p[i]]

RECURSIVE Ascending(_)
Ascending(S) ==
    IF S = {} THEN <<>>
    ELSE LET m == CHOOSE x \in S : \A y \in S : x <= y
         IN <<m>> \o Ascending(S \ {m})

---------------------------------------------------------------------------
(* Capabilities of the Id Tracker and the Payload Index *)

\* The external id a point was inserted under.
ExternalOf(internal_id) == 10 * internal_id + 7

\* IdTracker::external_id: None for a point that does not resolve.
external_id(internal_id) ==
    IF internal_id \in DOMAIN id_tracker THEN id_tracker[internal_id] ELSE None

\* IdTracker::iter_random: every order of the (external, internal) pairs of the live points.
iter_random ==
    {[i \in 1 .. Cardinality(DOMAIN id_tracker) |-> <<id_tracker[p[i]], p[i]>>] :
        p \in Perms(DOMAIN id_tracker)}

\* FilterContext::check of the context compiled from a condition.
filter_context_check(cond, internal_id) == payload_index[internal_id] \in cond

\* PayloadIndex::iter_filtered_points: the matching internal ids in index order.
iter_filtered_points(cond) ==
    Ascending({i \in DOMAIN payload_index : filter_context_check(cond, i)})

\* The live points that satisfy a condition, by external id.
Matching(cond) ==
    {id_tracker[i] : i \in {j \in DOMAIN id_tracker : filter_context_check(cond, j)}}

LivePoints == {id_tracker[i] : i \in DOMAIN id_tracker}


---------------------------------------------------------------------------
(* Adapters of the iterator chains *)

\* Faulty variant: the closure never reports the flag.
StopNeverSeen(r) == FALSE

\* Faulty variant: one flag shared by all requests.
StopRequestedByAny(r) == \E q \in Requests : is_stopped[q]

\* `|| is_stopped.load(Ordering::Relaxed)`: the closure handed to check_stop.
StopRequested(r) == is_stopped[r]

\* Faulty variant: take(limit + 1).
TakeOneMore(r) == Len(out[r]) = limit[r] + 1

\* `.take(limit)`: Take yields None, without asking its inner iterator, once
\* `limit` elements went through it.
TakeExhausted(r) == Len(out[r]) = limit[r]

\* Faulty variant: the filter lets every point through.
FilterKeepsAll(r, elem) == TRUE

\* `.filter(move |(_, internal_id)| filter_context.check(*internal_id))`
FilterKeeps(r, elem) == filter_context_check(condition[r], elem[2])

\* Faulty variant: the other half of the pair is mapped.
MapInternal(elem) == elem[2]

\* `.map(|(external_id, _)| external_id)` and `.map(|x| x.0)`
MapExternal(elem) == elem[1]

\* Faulty variant: the id is translated without asking the Id Tracker whether it resolves.
FilterMapUnchecked(internal_id) == ExternalOf(internal_id)

\* `.filter_map(|internal_id| id_tracker.external_id(internal_id))`:
\* None means the element is dropped.
FilterMapExternal(internal_id) == external_id(internal_id)

\* Faulty variant: the first loop takes amount + 1 elements.
ReservoirFillingOneMore(r) == Len(out[r]) <= limit[r]

\* choose_multiple, first loop: `reservoir.extend(self.by_ref().take(amount))`
\* is still filling while the reservoir is shorter than `amount`.
ReservoirFilling(r) == Len(out[r]) < limit[r]

\* choose_multiple, second loop: `k = gen_index(rng, i + 1 + amount)` and
\* `if let Some(slot) = reservoir.get_mut(k) { *slot = elem }`.
ReservoirSlots(r) == 0 .. (seen[r] + limit[r])

ReservoirPut(r, k, e) ==
    IF k < Len(out[r]) THEN [out[r] EXCEPT ![k + 1] = e] ELSE out[r]

\* Faulty variant: the shuffle draws positions with repetition.
ShuffleWithRepeats(r) ==
    {[i \in 1 .. Len(out[r]) |-> out[r][p[i]]] : p \in [1 .. Len(out[r]) -> 1 .. Len(out[r])]}

\* `shuffled.shuffle(&mut rng)`: every order of the reservoir.
ShuffleResults(r) == {[i \in 1 .. Len(out[r]) |-> out[r][p[i]]] : p \in Perms(1 .. Len(out[r]))}

---------------------------------------------------------------------------
(* Operations *)

\* ---- filtered_read_by_index_shuffled ----

\* The call is entered: payload_index and id_tracker are borrowed, the
\* cardinality is estimated and iter_filtered_points builds the lazy sequence.
IndexShuffledStart(r) ==
    /\ pc[r] = "idle"
    /\ op[r] = "index_shuffled"
    /\ iter' = [iter EXCEPT ![r] = iter_filtered_points(condition[r])]
    /\ pc' = [pc EXCEPT ![r] = "next"]
    /\ UNCHANGED <<id_tracker, payload_index, op, limit, condition, is_stopped, pos,
                   done, out, seen, polls, pulls, checks, stop_mark, stop_pending,
                   validation>>

\* choose_multiple asks the chain for its next element: CheckStop::next loads
\* the flag; when it is set the chain ends and the reservoir goes to shuffle.
IndexShuffledNext(r) ==
    /\ pc[r] = "next"
    /\ op[r] = "index_shuffled"
    /\ polls' = [polls EXCEPT ![r] = @ + 1]
    /\ IF done[r] \/ StopRequested(r)
       THEN /\ done' = [done EXCEPT ![r] = TRUE]
            /\ pc' = [pc EXCEPT ![r] = "shuffle"]
       ELSE /\ pc' = [pc EXCEPT ![r] = "inner"]
            /\ UNCHANGED done
    /\ UNCHANGED <<id_tracker, payload_index, op, limit, condition, is_stopped, iter,
                   pos, out, seen, pulls, checks, stop_mark, stop_pending, validation>>

\* The flag was clear: the index sequence is asked for a candidate, which is
\* translated by filter_map and handed to the reservoir.
IndexShuffledInner(r) ==
    /\ pc[r] = "inner"
    /\ op[r] = "index_shuffled"
    /\ IF pos[r] = Len(iter[r])
       THEN /\ pc' = [pc EXCEPT ![r] = "shuffle"]
            /\ UNCHANGED <<pos, pulls, out, seen>>
       ELSE LET e == FilterMapExternal(iter[r][pos[r] + 1]) IN
            /\ pos' = [pos EXCEPT ![r] = @ + 1]
            /\ pulls' = [pulls EXCEPT ![r] = @ + 1]
            /\ pc' = [pc EXCEPT ![r] = "next"]
            /\ IF e = None
               THEN UNCHANGED <<out, seen>>
               ELSE IF ReservoirFilling(r)
                    THEN /\ out' = [out EXCEPT ![r] = Append(@, e)]
                         /\ UNCHANGED seen
                    ELSE /\ \E k \in ReservoirSlots(r) :
                                out' = [out EXCEPT ![r] = ReservoirPut(r, k, e)]
                         /\ seen' = [seen EXCEPT ![r] = @ + 1]
    /\ UNCHANGED <<id_tracker, payload_index, op, limit, condition, is_stopped, iter,
                   done, polls, checks, stop_mark, stop_pending, validation>>

\* `shuffled.shuffle(&mut rng); shuffled`
IndexShuffledShuffle(r) ==
    /\ pc[r] = "shuffle"
    /\ \E s \in ShuffleResults(r) : out' = [out EXCEPT ![r] = s]
    /\ pc' = [pc EXCEPT ![r] = "done"]
    /\ UNCHANGED <<id_tracker, payload_index, op, limit, condition, is_stopped, iter,
                   pos, done, seen, polls, pulls, checks, stop_mark, stop_pending,
                   validation>>

\* ---- filtered_read_by_random_stream ----

\* The call is entered: the filter context is compiled and iter_random draws
\* a permutation of the live points.
RandomStreamStart(r) ==
    /\ pc[r] = "idle"
    /\ op[r] = "random_stream"
    /\ \E s \in iter_random : iter' = [iter EXCEPT ![r] = s]
    /\ pc' = [pc EXCEPT ![r] = "next"]
    /\ UNCHANGED <<id_tracker, payload_index, op, limit, condition, is_stopped, pos,
                   done, out, seen, polls, pulls, checks, stop_mark, stop_pending,
                   validation>>

\* collect asks Take for the next element; Take asks Filter, which asks
\* CheckStop, which loads the flag.
RandomStreamNext(r) ==
    /\ pc[r] = "next"
    /\ op[r] = "random_stream"
    /\ IF TakeExhausted(r)
       THEN /\ pc' = [pc EXCEPT ![r] = "done"]
            /\ UNCHANGED <<done, polls>>
       ELSE /\ polls' = [polls EXCEPT ![r] = @ + 1]
            /\ IF done[r] \/ StopRequested(r)
               THEN /\ done' = [done EXCEPT ![r] = TRUE]
                    /\ pc' = [pc EXCEPT ![r] = "done"]
               ELSE /\ pc' = [pc EXCEPT ![r] = "inner"]
                    /\ UNCHANGED done
    /\ UNCHANGED <<id_tracker, payload_index, op, limit, condition, is_stopped, iter,
                   pos, out, seen, pulls, checks, stop_mark, stop_pending, validation>>

\* The flag was clear: the permutation is asked for an element, the filter
\* context is evaluated on it, and a match is mapped and collected.
RandomStreamInner(r) ==
    /\ pc[r] = "inner"
    /\ op[r] = "random_stream"
    /\ IF pos[r] = Len(iter[r])
       THEN /\ pc' = [pc EXCEPT ![r] = "done"]
            /\ UNCHANGED <<pos, pulls, checks, out>>
       ELSE LET elem == iter[r][pos[r] + 1] IN
            /\ pos' = [pos EXCEPT ![r] = @ + 1]
            /\ pulls' = [pulls EXCEPT ![r] = @ + 1]
            /\ checks' = [checks EXCEPT ![r] = @ + 1]
            /\ pc' = [pc EXCEPT ![r] = "next"]
            /\ IF FilterKeeps(r, elem)
               THEN out' = [out EXCEPT ![r] = Append(@, MapExternal(elem))]
               ELSE UNCHANGED out
    /\ UNCHANGED <<id_tracker, payload_index, op, limit, condition, is_stopped, iter,
                   done, seen, polls, stop_mark, stop_pending, validation>>

\* ---- read_by_random_id ----

RandomIdStart(r) ==
    /\ pc[r] = "idle"
    /\ op[r] = "random_id"
    /\ \E s \in iter_random : iter' = [iter EXCEPT ![r] = s]
    /\ pc' = [pc EXCEPT ![r] = "next"]
    /\ UNCHANGED <<id_tracker, payload_index, op, limit, condition, is_stopped, pos,
                   done, out, seen, polls, pulls, checks, stop_mark, stop_pending,
                   validation>>

\* collect asks Take, Take asks Map, Map asks the permutation.
RandomIdNext(r) ==
    /\ pc[r] = "next"
    /\ op[r] = "random_id"
    /\ IF TakeExhausted(r) \/ pos[r] = Len(iter[r])
       THEN /\ pc' = [pc EXCEPT ![r] = "done"]
            /\ UNCHANGED <<pos, pulls, out>>
       ELSE /\ pos' = [pos EXCEPT ![r] = @ + 1]
            /\ pulls' = [pulls EXCEPT ![r] = @ + 1]
            /\ out' = [out EXCEPT ![r] = Append(@, MapExternal(iter[r][pos[r] + 1]))]
            /\ UNCHANGED pc
    /\ UNCHANGED <<id_tracker, payload_index, op, limit, condition, is_stopped, iter,
                   done, seen, polls, checks, stop_mark, stop_pending, validation>>

\* ---- the caller's side of the cancellation flag ----

\* Another thread stores true into the request's flag (false -> true, once).
SetStop(r) ==
    /\ pc[r] \in {"idle", "next", "inner", "shuffle"}
    /\ op[r] # "random_id"
    /\ ~is_stopped[r]
    /\ is_stopped' = [is_stopped EXCEPT ![r] = TRUE]
    /\ stop_mark' = [stop_mark EXCEPT ![r] = pulls[r]]
    /\ stop_pending' = [stop_pending EXCEPT ![r] = (pc[r] = "inner")]
    /\ UNCHANGED <<id_tracker, payload_index, op, limit, condition, pc, iter, pos,
                   done, out, seen, polls, pulls, checks, validation>>

---------------------------------------------------------------------------
(* Specifications *)

\* The segments: any set of live points; the index still lists every point
\* that was ever inserted, with its payload.
Segments(n) ==
    {[tracker |-> [i \in live |-> ExternalOf(i)],
      index |-> [i \in 1 .. n |-> IF i % 2 = 1 THEN "a" ELSE "b"]] :
        live \in SUBSET (1 .. n)}

Idle(reqs) ==
    /\ pc = [r \in Requests |-> IF r \in reqs THEN "idle" ELSE "absent"]
    /\ is_stopped = [r \in Requests |-> FALSE]
    /\ iter = [r \in Requests |-> <<>>]
    /\ pos = [r \in Requests |-> 0]
    /\ done = [r \in Requests |-> FALSE]
    /\ out = [r \in Requests |-> <<>>]
    /\ seen = [r \in Requests |-> 0]
    /\ polls = [r \in Requests |-> 0]
    /\ pulls = [r \in Requests |-> 0]
    /\ checks = [r \in Requests |-> 0]
    /\ stop_mark = [r \in Requests |-> 0]
    /\ stop_pending = [r \in Requests |-> FALSE]

\* No validate() call is in progress.
NoValidation ==
    /\ input = [type |-> "None"]
    /\ vpc = "finished"
    /\ idx = 0
    /\ result = [ok |-> TRUE, field |-> "", code |-> "", message |-> ""]

\* One request on a segment, with every operation, limit and filter.
Init ==
    /\ \E s \in Segments(MaxPoints) : id_tracker = s.tracker /\ payload_index = s.index
    /\ \E o \in Ops, l \in 0 .. MaxLimit, c \in SUBSET PayloadValues :
          /\ op = [r \in Requests |-> o]
          /\ limit = [r \in Requests |-> l]
          /\ condition = [r \in Requests |-> c]
    /\ Idle({"r1"})
    /\ NoValidation

Step(r) ==
    \/ IndexShuffledStart(r)
    \/ IndexShuffledNext(r)
    \/ IndexShuffledInner(r)
    \/ IndexShuffledShuffle(r)
    \/ RandomStreamStart(r)
    \/ RandomStreamNext(r)
    \/ RandomStreamInner(r)
    \/ RandomIdStart(r)
    \/ RandomIdNext(r)

Next == \E r \in Requests : Step(r) \/ SetStop(r)

Spec == Init /\ [][Next]_vars

\* Two requests at once on one segment, each with its own operation, limit,
\* filter and flag.
InitConcurrent ==
    /\ \E s \in Segments(ConcPoints) : id_tracker = s.tracker /\ payload_index = s.index
    /\ op \in [Requests -> Ops]
    /\ limit \in [Requests -> 1 .. ConcLimit]
    /\ condition \in [Requests -> {{"a"}, PayloadValues}]
    /\ Idle(Requests)
    /\ NoValidation

SpecConcurrent == InitConcurrent /\ [][Next]_vars

---------------------------------------------------------------------------
(* Claims about the sampling operations *)

Filtered(r) == op[r] \in {"index_shuffled", "random_stream"}

Returned(r) == pc[r] = "done"

\* The candidates the index has handed out so far that the Id Tracker resolves.
ResolvedSeen(r) ==
    {external_id(iter[r][i]) : i \in {j \in 1 .. pos[r] : iter[r][j] \in DOMAIN id_tracker}}

\* C1: filtered_read_by_random_stream returns at most `limit` identifiers,
\* each of a live point that satisfies the filter, and none twice, whatever
\* the filter, the limit (0 included) and the moment the flag is set.
C1_RandomStreamContract ==
    \A r \in Requests :
        (op[r] = "random_stream" /\ Returned(r)) =>
            /\ Len(out[r]) <= limit[r]
            /\ Range(out[r]) \subseteq Matching(condition[r])
            /\ Distinct(out[r])

\* A stream that was cancelled after it had collected two matches of three asked for.
C1_Witness ==
    /\ op["r1"] = "random_stream" /\ Returned("r1")
    /\ done["r1"] /\ limit["r1"] = 3 /\ Len(out["r1"]) = 2
    /\ pulls["r1"] > Len(out["r1"])

\* C2: filtered_read_by_index_shuffled returns at most `limit` identifiers,
\* each the external id of a live point that satisfies the filter; a candidate
\* the Id Tracker does not resolve leaves no entry in the result.
C2_IndexShuffledContract ==
    \A r \in Requests :
        (op[r] = "index_shuffled" /\ Returned(r)) =>
            /\ Len(out[r]) <= limit[r]
            /\ Range(out[r]) \subseteq Matching(condition[r])
            /\ None \notin Range(out[r])

\* A call that met a candidate that does not resolve, and returned the others.
C2_Witness ==
    /\ op["r1"] = "index_shuffled" /\ Returned("r1")
    /\ \E i \in 1 .. pos["r1"] : iter["r1"][i] \notin DOMAIN id_tracker
    /\ Len(out["r1"]) = 2
    /\ is_stopped["r1"]

\* C3: read_by_random_id returns exactly min(limit, number of live points)
\* identifiers, pairwise distinct, each the external id of a live point.
C3_RandomIdContract ==
    \A r \in Requests :
        (op[r] = "random_id" /\ Returned(r)) =>
            /\ Len(out[r]) = Min(limit[r], Cardinality(LivePoints))
            /\ Distinct(out[r])
            /\ Range(out[r]) \subseteq LivePoints

\* Two of three live points were asked for and returned.
C3_Witness ==
    /\ op["r1"] = "random_id" /\ Returned("r1")
    /\ limit["r1"] = 2 /\ Cardinality(LivePoints) = 3 /\ Len(out["r1"]) = 2

\* C4 as stated: a flag set after k elements were handed out by the scan
\* yields a result of length <= k.
C4_LengthAtMostEmitted ==
    \A r \in Requests :
        (Filtered(r) /\ Returned(r) /\ is_stopped[r]) =>
            Len(out[r]) <= Min(limit[r], stop_mark[r])

\* C4 as the code has it: the element whose flag load came before the store
\* is still handed out, so the result has length <= k + 1; it has length
\* <= k when the store does not fall between a load and its element, and
\* it is empty when the flag is set before the call's first load.
C4_LengthAtMostEmittedPlusOne ==
    \A r \in Requests :
        (Filtered(r) /\ Returned(r) /\ is_stopped[r]) =>
            /\ Len(out[r]) <= Min(limit[r], stop_mark[r] + 1)
            /\ ~stop_pending[r] => Len(out[r]) <= stop_mark[r]

\* The flag was set after one element, between a load and its element, and
\* two identifiers came back.
C4_Witness ==
    /\ Filtered("r1") /\ Returned("r1") /\ is_stopped["r1"] /\ done["r1"]
    /\ stop_pending["r1"] /\ stop_mark["r1"] = 1 /\ Len(out["r1"]) = 2

\* C5: with the flag never set, both filtered operations return exactly
\* min(limit, M) pairwise distinct identifiers, M the number of live points
\* that satisfy the filter; the empty sequence when M = 0.
C5_ExactCountWithoutCancel ==
    \A r \in Requests :
        (Filtered(r) /\ Returned(r) /\ ~is_stopped[r]) =>
            /\ Len(out[r]) = Min(limit[r], Cardinality(Matching(condition[r])))
            /\ Distinct(out[r])

\* An index-driven call whose reservoir was full while candidates kept coming.
C5_Witness ==
    /\ op["r1"] = "index_shuffled" /\ Returned("r1") /\ ~is_stopped["r1"]
    /\ seen["r1"] > 0 /\ Len(out["r1"]) = 2
    /\ Cardinality(Matching(condition["r1"])) > limit["r1"]

\* C8, state part: in filtered_read_by_random_stream every element drawn was
\* preceded by a load of the flag that saw it clear, the filter context is
\* evaluated once per element drawn, the call returns only on a set flag, an
\* exhausted permutation or `limit` matches, and limit = 0 draws nothing.
RandomStreamPolling(r) ==
    /\ checks[r] = pulls[r] /\ pulls[r] = pos[r]
    /\ pc[r] = "next" => (polls[r] = pulls[r] /\ ~done[r])
    /\ pc[r] = "inner" => (polls[r] = pulls[r] + 1 /\ ~done[r] /\ Len(out[r]) < limit[r])
    /\ Returned(r) =>
          \/ done[r] /\ is_stopped[r] /\ polls[r] = pulls[r] + 1
          \/ pos[r] = Len(iter[r]) /\ polls[r] = pulls[r] + 1
          \/ Len(out[r]) = limit[r] /\ polls[r] = pulls[r]
    /\ limit[r] = 0 => (pulls[r] = 0 /\ polls[r] = 0)

\* C8, step part: once the flag was seen set, the call returned or `limit`
\* matches are collected, no element is drawn and no point is checked.
RandomStreamStops(r) ==
    (done[r] \/ Returned(r) \/ Len(out[r]) = limit[r]) =>
        (pos'[r] = pos[r] /\ pulls'[r] = pulls[r] /\ checks'[r] = checks[r] /\ out'[r] = out[r])

\* C8: filtered_read_by_random_stream polls the flag before each element it
\* draws, matching or not, and draws nothing after the first of: flag seen
\* set, permutation exhausted, `limit` matches collected.
C8_RandomStreamStopsAtFirstEvent ==
    /\ [](\A r \in Requests : op[r] = "random_stream" => RandomStreamPolling(r))
    /\ [][\A r \in Requests : op[r] = "random_stream" => RandomStreamStops(r)]_vars

\* A stream stopped by the flag after it drew an element that did not match.
C8_Witness ==
    /\ op["r1"] = "random_stream" /\ Returned("r1") /\ done["r1"]
    /\ pulls["r1"] = 3 /\ Len(out["r1"]) = 1 /\ limit["r1"] = 2
    /\ pos["r1"] < Len(iter["r1"])

\* C9, state part: one load of the flag per candidate asked for; a set flag
\* ends the enumeration and the reservoir holds min(limit, n) of the n
\* resolvable candidates seen, all of them when n <= limit.
IndexShuffledPolling(r) ==
    /\ pulls[r] = pos[r]
    /\ pc[r] = "next" => (polls[r] = pulls[r] /\ ~done[r])
    /\ pc[r] = "inner" => (polls[r] = pulls[r] + 1 /\ ~done[r])
    /\ pc[r] \in {"shuffle", "done"} =>
          /\ polls[r] = pulls[r] + 1
          /\ done[r] \/ pos[r] = Len(iter[r])
          /\ Range(out[r]) \subseteq ResolvedSeen(r)
          /\ Len(out[r]) = Min(limit[r], Cardinality(ResolvedSeen(r)))
          /\ Cardinality(ResolvedSeen(r)) <= limit[r] => Range(out[r]) = ResolvedSeen(r)
    /\ done[r] => (is_stopped[r] /\ pc[r] \in {"shuffle", "done"})

\* C9, step part: after the flag was seen set no candidate is pulled, and the
\* result is a permutation of the reservoir.
IndexShuffledStops(r) ==
    /\ done[r] => (pos'[r] = pos[r] /\ pulls'[r] = pulls[r])
    /\ (pc[r] = "shuffle" /\ pc'[r] = "done") => IsPermutationOf(out'[r], out[r])
    /\ pc[r] = "done" => out'[r] = out[r]

\* C9: filtered_read_by_index_shuffled polls the flag once per candidate it
\* asks the index for; once the flag was seen set it pulls no further
\* candidate and returns a permutation of what was reserved.
C9_IndexShuffledStopsEarly ==
    /\ [](\A r \in Requests : op[r] = "index_shuffled" => IndexShuffledPolling(r))
    /\ [][\A r \in Requests : op[r] = "index_shuffled" => IndexShuffledStops(r)]_vars

\* A cancelled index-driven call that returned two identifiers in another
\* order than the index listed them, with candidates left in the index.
C9_Witness ==
    /\ op["r1"] = "index_shuffled" /\ Returned("r1") /\ done["r1"]
    /\ pos["r1"] < Len(iter["r1"])
    /\ Len(out["r1"]) = 2 /\ out["r1"][1] > out["r1"][2]

\* What a call returns when it runs alone with its flag clear.
IsolatedResult(r) ==
    LET Keep(elem) == FilterKeeps(r, elem)
        kept == IF op[r] = "random_stream" THEN SelectSeq(iter[r], Keep) ELSE iter[r]
    IN  [i \in 1 .. Min(limit[r], Len(kept)) |-> MapExternal(kept[i])]

\* C10, state part: a request whose own flag is never set returns what it
\* returns alone, whatever the other request does.
NoInterference(r) ==
    (Returned(r) /\ ~is_stopped[r]) =>
        IF op[r] = "index_shuffled"
        THEN /\ Len(out[r]) = Min(limit[r], Cardinality(Matching(condition[r])))
             /\ Range(out[r]) \subseteq Matching(condition[r])
             /\ pos[r] = Len(iter[r])
        ELSE out[r] = IsolatedResult(r)

private(r) == <<pc[r], iter[r], pos[r], done[r], out[r], seen[r]>>

\* C10, step part: no step changes the segment, a step of a request changes
\* no flag, and no step changes the iteration state of two requests.
ReadOnly ==
    /\ segment' = segment
    /\ <<op, limit, condition>>' = <<op, limit, condition>>
    /\ is_stopped' # is_stopped => \A r \in Requests : private(r)' = private(r)
    /\ \A r, q \in Requests :
          (private(r)' # private(r) /\ private(q)' # private(q)) => r = q

\* C10: concurrent sampling requests leave the Id Tracker, the Payload Index
\* and every flag as they were and share no iteration state: a request whose
\* flag is never set is not shortened or changed by the other's flag.
C10_RequestsAreIndependent ==
    /\ [](\A r \in Requests : NoInterference(r))
    /\ [][ReadOnly]_vars

\* Both requests returned: r2 was cancelled and came back empty, r1 was not
\* and came back with everything it asked for.
C10_Witness ==
    /\ Returned("r1") /\ Returned("r2")
    /\ is_stopped["r2"] /\ done["r2"] /\ out["r2"] = <<>>
    /\ ~is_stopped["r1"] /\ Filtered("r1") /\ Len(out["r1"]) = 2

---------------------------------------------------------------------------
(* REST validation: values *)

MaxItems == 2
MaxPairs == 1

SeqsUpTo(S, n) == UNION {[1 .. k -> S] : k \in 0 .. n}

\* Option<T>
Absent == [some |-> FALSE, items |-> <<>>]
Some(x) == [some |-> TRUE, items |-> x]
Options(S) == {Absent} \cup {Some(x) : x \in S}

\* VectorInput; `valid` says whether the sparse or multi-dense vector it
\* carries passes its own validation.
VectorInputs ==
    {[variant |-> v, valid |-> TRUE] :
        v \in {"Id", "DenseVector", "SparseVector", "MultiDenseVector", "Document"}}
    \cup {[variant |-> v, valid |-> FALSE] : v \in {"SparseVector", "MultiDenseVector"}}

\* The VectorInputs used as list items.
ItemInputs ==
    {[variant |-> "Id", valid |-> TRUE], [variant |-> "SparseVector", valid |-> TRUE],
     [variant |-> "SparseVector", valid |-> FALSE], [variant |-> "Document", valid |-> TRUE]}

\* Vector
Vectors ==
    {[variant |-> v, valid |-> TRUE] : v \in {"Dense", "Sparse", "MultiDense", "Document"}}
    \cup {[variant |-> v, valid |-> FALSE] : v \in {"Sparse", "MultiDense"}}

\* Sequences with at most one element that fails its own validation: what
\* validate_iter and the derived Validate of DiscoverInput report for several
\* failures at once is decided outside the modelled files.
AtMostOneFailing(vs) ==
    Cardinality({i \in 1 .. Len(vs) : vs[i].variant = "Document" \/ ~vs[i].valid}) <= 1

NamedVectors == {n \in SeqsUpTo(Vectors, MaxItems) : AtMostOneFailing(n)}

\* VectorStruct; Named holds the values of its map.
VectorStructs ==
    {[variant |-> v, valid |-> TRUE, named |-> <<>>] : v \in {"Single", "MultiDense", "Document"}}
    \cup {[variant |-> "MultiDense", valid |-> FALSE, named |-> <<>>]}
    \cup {[variant |-> "Named", valid |-> TRUE, named |-> n] : n \in NamedVectors}

\* BatchVectorStruct; MultiDense holds one validity per multi-dense vector,
\* Named the vectors of all its batches.
BatchVectorStructs ==
    {[variant |-> v, multis |-> <<>>, named |-> <<>>] : v \in {"Single", "Document"}}
    \cup {[variant |-> "MultiDense", multis |-> m, named |-> <<>>] : m \in SeqsUpTo(BOOLEAN, MaxItems)}
    \cup {[variant |-> "Named", multis |-> <<>>, named |-> n] : n \in NamedVectors}

RecommendInputs ==
    [positive : Options(SeqsUpTo(ItemInputs, MaxItems)),
     negative : Options(SeqsUpTo(ItemInputs, MaxItems))]

ContextPairs == [positive : ItemInputs, negative : ItemInputs]

\* ContextInput(Option<OneOrMany<ContextPair>>)
ContextInputs == Options(SeqsUpTo(ContextPairs, MaxPairs))

\* ContextPair::iter, flattened over the pairs of a ContextInput.
RECURSIVE PairItems(_)
PairItems(pairs) ==
    IF pairs = <<>> THEN <<>>
    ELSE <<Head(pairs).positive, Head(pairs).negative>> \o PairItems(Tail(pairs))

DiscoverInputs ==
    {d \in [target : VectorInputs, context : ContextInputs] :
        AtMostOneFailing(<<d.target>> \o PairItems(d.context.items))}

Queries ==
    {[variant |-> "Nearest", arg |-> v] : v \in VectorInputs}
    \cup {[variant |-> "Recommend", arg |-> v] : v \in RecommendInputs}
    \cup {[variant |-> "Discover", arg |-> v] : v \in DiscoverInputs}
    \cup {[variant |-> "Context", arg |-> v] : v \in ContextInputs}
    \cup {[variant |-> "Fusion", arg |-> [variant |-> v, valid |-> TRUE]] : v \in {"Rrf", "Dbsf"}}
    \cup {[variant |-> "OrderBy", arg |-> [variant |-> "Key", valid |-> TRUE]]}
    \cup {[variant |-> "Sample", arg |-> [variant |-> "Random", valid |-> TRUE]]}

QueryInterfaces ==
    {[variant |-> "Nearest", arg |-> v] : v \in VectorInputs}
    \cup {[variant |-> "Query", arg |-> q] : q \in Queries}

\* What validate() may be called on.
Inputs ==
    {[type |-> "VectorInput", value |-> v] : v \in VectorInputs}
    \cup {[type |-> "Vector", value |-> v] : v \in Vectors}
    \cup {[type |-> "VectorStruct", value |-> v] : v \in VectorStructs}
    \cup {[type |-> "BatchVectorStruct", value |-> v] : v \in BatchVectorStructs}
    \cup {[type |-> "QueryInterface", value |-> v] : v \in QueryInterfaces}

---------------------------------------------------------------------------
(* REST validation: results *)

Ok == [ok |-> TRUE, field |-> "", code |-> "", message |-> ""]

Err(field, code, message) == [ok |-> FALSE, field |-> field, code |-> code, message |-> message]

\* errors.add("text", ValidationError::new("not_supported_inference") with a "message" param)
DocumentNotSupported ==
    Err("text", "not_supported_inference",
        "Document inference is not implemented, please use vectors instead")

\* errors.add("positives, negatives", ValidationError::new(...))
NoPositivesNoNegatives ==
    Err("positives, negatives",
        "At least one positive or negative vector/id must be provided", "")

\* SparseVector::validate
sparse_validate(valid) == IF valid THEN Ok ELSE Err("indices", "sparse_vector", "")

\* common::validation::validate_multi_vector
validate_multi_vector(valid) == IF valid THEN Ok ELSE Err("data", "multi_vector", "")

\* The result of the first element of a sequence of results that failed.
RECURSIVE FirstFailure(_)
FirstFailure(rs) ==
    IF rs = <<>> THEN Ok
    ELSE IF ~Head(rs).ok THEN Head(rs)
    ELSE FirstFailure(Tail(rs))

---------------------------------------------------------------------------
(* REST validation: the Validate implementations *)

\* impl Validate for Vector
VectorValidate(v) ==
    CASE v.variant = "Dense" -> Ok
      [] v.variant = "Sparse" -> sparse_validate(v.valid)
      [] v.variant = "MultiDense" -> validate_multi_vector(v.valid)
      [] v.variant = "Document" -> DocumentNotSupported

\* common::validation::validate_iter over Vectors
validate_iter(vs) == FirstFailure([i \in 1 .. Len(vs) |-> VectorValidate(vs[i])])

\* impl Validate for VectorStruct
VectorStructValidate(v) ==
    CASE v.variant = "Single" -> Ok
      [] v.variant = "MultiDense" -> validate_multi_vector(v.valid)
      [] v.variant = "Named" -> validate_iter(v.named)
      [] v.variant = "Document" -> DocumentNotSupported

\* impl Validate for BatchVectorStruct
BatchVectorStructValidate(v) ==
    CASE v.variant = "Single" -> Ok
      [] v.variant = "MultiDense" ->
            FirstFailure([i \in 1 .. Len(v.multis) |-> validate_multi_vector(v.multis[i])])
      [] v.variant = "Named" -> validate_iter(v.named)
      [] v.variant = "Document" -> DocumentNotSupported

\* Faulty variant: the Document arm accepts.
VectorInputValidateNoDocument(v) ==
    CASE v.variant = "SparseVector" -> sparse_validate(v.valid)
      [] v.variant = "MultiDenseVector" -> validate_multi_vector(v.valid)
      [] OTHER -> Ok

\* impl Validate for VectorInput
VectorInputValidate(v) ==
    CASE v.variant = "Id" -> Ok
      [] v.variant = "DenseVector" -> Ok
      [] v.variant = "SparseVector" -> sparse_validate(v.valid)
      [] v.variant = "MultiDenseVector" -> validate_multi_vector(v.valid)
      [] v.variant = "Document" -> DocumentNotSupported

\* impl Validate for Fusion, OrderByInterface::Key, Sample
TrivialValidate == Ok

\* impl Validate for Query: the value the call is handed on to.
QueryValidate(q) ==
    CASE q.variant = "Nearest" -> [type |-> "VectorInput", value |-> q.arg]
      [] q.variant = "Recommend" -> [type |-> "RecommendInput", value |-> q.arg]
      [] q.variant = "Discover" -> [type |-> "DiscoverInput", value |-> q.arg]
      [] q.variant = "Context" -> [type |-> "ContextInput", value |-> q.arg]
      [] q.variant = "Fusion" -> [type |-> "Fusion", value |-> q.arg]
      [] q.variant = "OrderBy" -> [type |-> "OrderByInterface", value |-> q.arg]
      [] q.variant = "Sample" -> [type |-> "Sample", value |-> q.arg]

\* impl Validate for QueryInterface: the value the call is handed on to.
QueryInterfaceValidate(qi) ==
    CASE qi.variant = "Nearest" -> [type |-> "VectorInput", value |-> qi.arg]
      [] qi.variant = "Query" -> QueryValidate(qi.arg)

\* The value whose Validate implementation decides the call on `input`.
Target ==
    IF input.type = "QueryInterface" THEN QueryInterfaceValidate(input.value) ELSE input

\* `self.0.iter().flatten().flat_map(|item| item.iter())`
ContextInputIter(c) == PairItems(c.items)

\* RecommendInput::iter: the positives, then the negatives.
RecommendInputIter(rec) == rec.positive.items \o rec.negative.items

\* The nested fields of a DiscoverInput: the target, then the context.
DiscoverInputIter(d) == <<d.target>> \o ContextInputIter(d.context)

\* `self.positive.as_ref().map(|p| p.is_empty()).unwrap_or(true)`
no_positives(rec) == IF rec.positive.some THEN rec.positive.items = <<>> ELSE TRUE

\* `self.negative.as_ref().map(|n| n.is_empty()).unwrap_or(true)`
no_negatives(rec) == IF rec.negative.some THEN rec.negative.items = <<>> ELSE TRUE

\* Faulty variant: `||` for `&&`.
RecommendIsEmptyEither(rec) == no_positives(rec) \/ no_negatives(rec)

\* `if no_positives && no_negatives`
RecommendIsEmpty(rec) == no_positives(rec) /\ no_negatives(rec)

\* The nested items the loop of the call walks.
Items ==
    CASE Target.type = "RecommendInput" -> RecommendInputIter(Target.value)
      [] Target.type = "ContextInput" -> ContextInputIter(Target.value)
      [] Target.type = "DiscoverInput" -> DiscoverInputIter(Target.value)
      [] OTHER -> <<>>

---------------------------------------------------------------------------
(* REST validation: the calls *)

\* validate() on a value whose implementation is a single match.
ValidateDirect ==
    /\ vpc = "start"
    /\ Target.type \in {"VectorInput", "Vector", "VectorStruct", "BatchVectorStruct",
                        "Fusion", "OrderByInterface", "Sample"}
    /\ result' = CASE Target.type = "VectorInput" -> VectorInputValidate(Target.value)
                   [] Target.type = "Vector" -> VectorValidate(Target.value)
                   [] Target.type = "VectorStruct" -> VectorStructValidate(Target.value)
                   [] Target.type = "BatchVectorStruct" -> BatchVectorStructValidate(Target.value)
                   [] OTHER -> TrivialValidate
    /\ vpc' = "finished"
    /\ UNCHANGED <<sampling, input, idx>>

\* impl Validate for RecommendInput, up to its loop.
RecommendInputCheck ==
    /\ vpc = "start"
    /\ Target.type = "RecommendInput"
    /\ IF RecommendIsEmpty(Target.value)
       THEN /\ result' = NoPositivesNoNegatives
            /\ vpc' = "finished"
       ELSE /\ vpc' = "items"
            /\ UNCHANGED result
    /\ UNCHANGED <<sampling, input, idx>>

\* One round of `for item in ... { item.validate()?; }`, or the Ok(()) after it.
ItemLoop ==
    IF idx > Len(Items)
    THEN /\ result' = Ok
         /\ vpc' = "finished"
         /\ UNCHANGED idx
    ELSE /\ idx' = idx + 1
         /\ IF VectorInputValidate(Items[idx]).ok
            THEN /\ vpc' = "items"
                 /\ UNCHANGED result
            ELSE /\ result' = VectorInputValidate(Items[idx])
                 /\ vpc' = "finished"

RecommendInputLoop ==
    /\ vpc = "items"
    /\ Target.type = "RecommendInput"
    /\ ItemLoop
    /\ UNCHANGED <<sampling, input>>

\* impl Validate for ContextInput
ContextInputLoop ==
    /\ vpc \in {"start", "items"}
    /\ Target.type = "ContextInput"
    /\ ItemLoop
    /\ UNCHANGED <<sampling, input>>

\* Validate of DiscoverInput
DiscoverInputLoop ==
    /\ vpc \in {"start", "items"}
    /\ Target.type = "DiscoverInput"
    /\ ItemLoop
    /\ UNCHANGED <<sampling, input>>

InitValidate ==
    /\ id_tracker = <<>>
    /\ payload_index = <<>>
    /\ op = [r \in Requests |-> "random_id"]
    /\ limit = [r \in Requests |-> 0]
    /\ condition = [r \in Requests |-> {}]
    /\ Idle({})
    /\ input \in Inputs
    /\ vpc = "start"
    /\ idx = 1
    /\ result = Ok

NextValidate ==
    \/ ValidateDirect
    \/ RecommendInputCheck
    \/ RecommendInputLoop
    \/ ContextInputLoop
    \/ DiscoverInputLoop

SpecValidate == InitValidate /\ [][NextValidate]_vars

---------------------------------------------------------------------------
(* Claims about the validation layer *)

Finished == vpc = "finished"

IsRecommend == Target.type = "RecommendInput"

\* The positive list is absent or empty, and so is the negative list.
NothingToRecommend ==
    /\ ~Target.value.positive.some \/ Len(Target.value.positive.items) = 0
    /\ ~Target.value.negative.some \/ Len(Target.value.negative.items) = 0

\* An item that passes its own validation.
ItemPasses(item) == item.variant # "Document" /\ item.valid

FailingItems == {i \in 1 .. Len(Items) : ~ItemPasses(Items[i])}

FirstFailing == CHOOSE i \in FailingItems : \A j \in FailingItems : i <= j

ItemError(item) ==
    IF item.variant = "Document" THEN DocumentNotSupported
    ELSE Err("indices", "sparse_vector", "")

\* C6: validating a recommend input fails on "positives, negatives" exactly
\* when both lists are absent or empty, before any item is validated;
\* otherwise the items are validated in order up to the first that fails,
\* whose error is the result, and the result is success when none fails.
C6_RecommendValidation ==
    IsRecommend =>
        /\ vpc = "start" => idx = 1
        /\ Finished =>
              /\ result.field = "positives, negatives" <=> NothingToRecommend
              /\ NothingToRecommend => (result = NoPositivesNoNegatives /\ idx = 1)
              /\ (~NothingToRecommend /\ FailingItems = {}) =>
                    (result = Ok /\ idx = Len(Items) + 1)
              /\ (~NothingToRecommend /\ FailingItems # {}) =>
                    (result = ItemError(Items[FirstFailing]) /\ idx = FirstFailing + 1)

\* Three items, the second an invalid sparse vector, the third a document:
\* the sparse vector's error came back and the document was never validated.
C6_Witness ==
    /\ IsRecommend /\ Finished
    /\ Len(Items) = 3 /\ idx = 3
    /\ Items[1].variant = "Id" /\ Items[3].variant = "Document"
    /\ result = Err("indices", "sparse_vector", "")

\* The value under validation holds a document variant.
HasDocument ==
    CASE Target.type \in {"VectorInput", "Vector"} -> Target.value.variant = "Document"
      [] Target.type \in {"VectorStruct", "BatchVectorStruct"} ->
            \/ Target.value.variant = "Document"
            \/ \E i \in 1 .. Len(Target.value.named) : Target.value.named[i].variant = "Document"
      [] Target.type \in {"RecommendInput", "ContextInput", "DiscoverInput"} ->
            \E i \in 1 .. Len(Items) : Items[i].variant = "Document"
      [] OTHER -> FALSE

\* C7 as stated: whatever holds a document variant fails validation with the
\* not-supported error on field "text".
C7_DocumentAlwaysTextError ==
    (Finished /\ HasDocument) => result = DocumentNotSupported

\* The document variant is what validation meets first: the value is itself
\* a Document variant, or it is the first failing item of a recommend or
\* context query.
DocumentMetFirst ==
    CASE Target.type \in {"VectorInput", "Vector"} -> TRUE
      [] Target.type \in {"VectorStruct", "BatchVectorStruct"} -> Target.value.variant = "Document"
      [] Target.type \in {"RecommendInput", "ContextInput"} ->
            Items[FirstFailing].variant = "Document"
      [] OTHER -> FALSE

\* C7 as the code has it: validation never succeeds on a value that holds a
\* document variant, and the error is the not-supported error on "text"
\* when the document variant is met before any other failing item.
C7_DocumentNeverValid ==
    (Finished /\ HasDocument) =>
        /\ ~result.ok
        /\ DocumentMetFirst => result = DocumentNotSupported

\* A recommend query whose second item is a document, after a valid one.
C7_Witness ==
    /\ Finished /\ HasDocument
    /\ input.type = "QueryInterface" /\ IsRecommend
    /\ Len(Items) = 2 /\ Items[1].variant = "SparseVector" /\ idx = 3
    /\ result = DocumentNotSupported

===========================================================================
